---- MODULE Spec2Model ----
(***************************************************************************)
(* Model of python-sdk/image_enhancer_sdk.py: the ImageEnhancerSDK         *)
(* mediator operations (enhance_image, classify_image, _admin_command),    *)
(* batch_enhance, save_enhanced_image and the CLI main().                  *)
(*                                                                         *)
(* Text is modelled as a sequence of one-character strings where its       *)
(* characters matter (data URIs, base64), and as a sequence of parts where *)
(* only the interpolated parts matter (f-string messages).                 *)
(***************************************************************************)
EXTENDS Integers, Sequences, FiniteSets, TLC

VARIABLES
    cmd,        \* entry point taken: a CLI sub-command or a library method
    paths,      \* the input image paths (args.input / image_files)
    pc,         \* position of the single thread of control
    i,          \* batch_enhance: loop index of enumerate(image_paths)
    results,    \* batch_enhance: the results list
    result,     \* the value the last mediator call returned
    req,        \* the HTTP request the thread is blocked on
    calls,      \* history: every mediator call, its outcome and return value
    events,     \* history: enhance calls and sleeps of batch_enhance
    j,          \* main: index of the tally loop over results
    successful, \* main: the tally counter
    saves,      \* history: every save_enhanced_image call
    printed,    \* what main printed last
    fault,      \* the exception that left an SDK operation or main, if any
    codec       \* the encode/decode pipeline on its own (SpecCodec)

vars == <<cmd, paths, pc, i, results, result, req, calls, events, j,
          successful, saves, printed, fault, codec>>

mainVars == <<cmd, paths, pc, i, results, result, req, calls, events, j,
              successful, saves, printed, fault>>

-----------------------------------------------------------------------------
(* Bounds *)

MaxBatch == 3    \* longest image_paths list
MaxLen == 3      \* longest file, in bytes, of the codec specification

-----------------------------------------------------------------------------
(* Payload codec: base64 and data URIs *)

Alphabet ==
    << "A","B","C","D","E","F","G","H","I","J","K","L","M",
       "N","O","P","Q","R","S","T","U","V","W","X","Y","Z",
       "a","b","c","d","e","f","g","h","i","j","k","l","m",
       "n","o","p","q","r","s","t","u","v","w","x","y","z",
       "0","1","2","3","4","5","6","7","8","9","+","/" >>

UrlSafeAlphabet ==
    [k \in 1..64 |-> IF k = 63 THEN "-" ELSE IF k = 64 THEN "_" ELSE Alphabet[k]]

B64Table == Alphabet

B64Char(n) == B64Table[n + 1]

IsB64(c) == \E k \in 1..64 : Alphabet[k] = c

B64Index(c) == (CHOOSE k \in 1..64 : Alphabet[k] = c) - 1

\* base64.b64encode(f.read()).decode('utf-8'): three bytes to four characters,
\* the last group padded with "=".
RECURSIVE b64encode(_)
b64encode(b) ==
    IF Len(b) = 0 THEN << >>
    ELSE IF Len(b) = 1 THEN
        << B64Char(b[1] \div 4), B64Char((b[1] % 4) * 16), "=", "=" >>
    ELSE IF Len(b) = 2 THEN
        << B64Char(b[1] \div 4),
           B64Char((b[1] % 4) * 16 + (b[2] \div 16)),
           B64Char((b[2] % 16) * 4), "=" >>
    ELSE
        << B64Char(b[1] \div 4),
           B64Char((b[1] % 4) * 16 + (b[2] \div 16)),
           B64Char((b[2] % 16) * 4 + (b[3] \div 64)),
           B64Char(b[3] % 64) >> \o b64encode(SubSeq(b, 4, Len(b)))

JpegPrefix ==
    << "d","a","t","a",":","i","m","a","g","e","/","j","p","e","g",";",
       "b","a","s","e","6","4","," >>

\* f"data:image/jpeg;base64,{image_data}"
EncodeImage(bytes) == JpegPrefix \o b64encode(bytes)

DataScheme == << "d","a","t","a",":" >>

\* str.startswith
StartsWith(s, p) == Len(s) >= Len(p) /\ SubSeq(s, 1, Len(p)) = p

\* Position of the first "," of s, 0 when there is none.
FirstComma(s) ==
    IF \E k \in 1..Len(s) : s[k] = ","
    THEN CHOOSE k \in 1..Len(s) : s[k] = "," /\ \A m \in 1..(k - 1) : s[m] /= ","
    ELSE 0

\* binascii.a2b_base64 in its default (non-strict) mode, as base64.b64decode
\* calls it: characters outside the alphabet are skipped, a complete pad ends
\* the parse, a dangling group is an error.
RECURSIVE a2b_base64(_, _, _, _, _, _)
a2b_base64(s, k, quad_pos, leftchar, pads, out) ==
    IF k > Len(s) THEN
        [ok |-> quad_pos = 0, bytes |-> IF quad_pos = 0 THEN out ELSE << >>]
    ELSE IF s[k] = "=" THEN
        IF quad_pos >= 2 /\ quad_pos + pads + 1 >= 4
        THEN [ok |-> TRUE, bytes |-> out]
        ELSE a2b_base64(s, k + 1, quad_pos, leftchar,
                        IF quad_pos >= 2 THEN pads + 1 ELSE pads, out)
    ELSE IF ~IsB64(s[k]) THEN
        a2b_base64(s, k + 1, quad_pos, leftchar, pads, out)
    ELSE
        LET v == B64Index(s[k]) IN
        CASE quad_pos = 0 -> a2b_base64(s, k + 1, 1, v, 0, out)
          [] quad_pos = 1 ->
                a2b_base64(s, k + 1, 2, v % 16, 0,
                           Append(out, leftchar * 4 + (v \div 16)))
          [] quad_pos = 2 ->
                a2b_base64(s, k + 1, 3, v % 4, 0,
                           Append(out, leftchar * 16 + (v \div 4)))
          [] OTHER ->
                a2b_base64(s, k + 1, 0, 0, 0, Append(out, leftchar * 64 + v))

b64decode(s) == a2b_base64(s, 1, 0, 0, 0, << >>)

\* header, data = enhanced_url.split(',', 1); base64.b64decode(data).
\* Without a comma the unpacking raises ValueError; a dangling base64 group
\* raises binascii.Error.
DecodeDataUri(uri) ==
    LET c == FirstComma(uri) IN
    IF c = 0 THEN [ok |-> FALSE, exc |-> "ValueError", bytes |-> << >>]
    ELSE LET d == b64decode(SubSeq(uri, c + 1, Len(uri))) IN
         [ok |-> d.ok, exc |-> IF d.ok THEN "none" ELSE "binascii.Error",
          bytes |-> d.bytes]

-----------------------------------------------------------------------------
(* Values: result dictionaries, transport outcomes, requests *)

\* A parsed JSON body or a returned result.  kind "null" is a JSON value
\* that is no container (None); keys are the top-level keys of a dict.
Dict(keys, error, image) ==
    [kind |-> "dict", keys |-> keys, error |-> error, enhancedImage |-> image]

JsonNull == [kind |-> "null", keys |-> {}, error |-> << >>, enhancedImage |-> << >>]

\* {'error': error_msg}
Failure(msg) == Dict({"error"}, msg, << >>)

\* 'error' in result, as main tests it
ErrorIn(r) == "error" \in r.keys

\* What a POST or GET can come to: a response, an exception raised by the
\* transport, or a server that never answers.
Resp(status, text, valid, json) ==
    [kind |-> "response", status |-> status, text |-> text, valid |-> valid,
     json |-> json, exc |-> "none"]

Raised(e) ==
    [kind |-> "exception", status |-> 0, text |-> "", valid |-> FALSE,
     json |-> JsonNull, exc |-> e]

Silent ==
    [kind |-> "silent", status |-> 0, text |-> "", valid |-> FALSE,
     json |-> JsonNull, exc |-> "none"]

EnhanceTimeout == 300
ClassifyTimeout == 60
AdminTimeout == 60
NoTimeout == 0      \* session.get(enhanced_url): no timeout argument

Request(method, endpoint, timeout, image) ==
    [method |-> method, endpoint |-> endpoint, timeout |-> timeout, image |-> image]

NoReq == Request("none", "", NoTimeout, << >>)

\* requests raises ReadTimeout when the timeout expires; without a timeout
\* the call never returns.
Transport(r, out) ==
    IF out.kind = "silent" /\ r.timeout /= NoTimeout THEN Raised("ReadTimeout")
    ELSE out

\* str(e)
ExcDesc(e) ==
    CASE e = "FileNotFoundError" -> "[Errno 2] No such file or directory"
      [] e = "ConnectionError"   -> "Connection refused"
      [] e = "ReadTimeout"       -> "Read timed out. (read timeout)"
      [] e = "JSONDecodeError"   -> "Expecting value: line 1 column 1 (char 0)"
      [] e = "ValueError"        -> "not enough values to unpack (expected 2, got 1)"
      [] e = "binascii.Error"    -> "Incorrect padding"
      [] e = "OSError"           -> "[Errno 13] Permission denied"
      [] OTHER                   -> e

Exceptions ==
    {"FileNotFoundError", "ConnectionError", "ReadTimeout", "JSONDecodeError",
     "ValueError", "binascii.Error", "OSError", "TypeError"}

TransportOnly(e) == e \in {"ConnectionError", "ReadTimeout"}

\* except Exception as e
Catches(e) == e \in Exceptions

-----------------------------------------------------------------------------
(* The environment: files and the remote service *)

Paths == {"a.jpg", "b.png"}

FileBytes(p) == IF p = "a.jpg" THEN <<255, 216, 255>> ELSE <<137, 80>>

Url == << "h","t","t","p",":","/","/","h","/","o" >>

BadBase64Uri == DataScheme \o << "x",",","A" >>

NoCommaUri == DataScheme \o << "x" >>

ErrorBodies ==
    { Resp(201, "{}", TRUE, Dict({}, << >>, << >>)),
      Resp(404, "Not Found", FALSE, JsonNull),
      Resp(500, "Internal Server Error", FALSE, JsonNull) }

CommonBodies ==
    { Resp(200, "{error: quota exceeded}", TRUE,
           Dict({"error"}, <<"quota exceeded">>, << >>)),
      Resp(200, "null", TRUE, JsonNull),
      Resp(200, "<html>", FALSE, JsonNull),
      Resp(404, "Not Found", FALSE, JsonNull),
      Raised("ConnectionError"), Silent }

\* What POST /api/enhance can come to.  A batch run draws from the first set
\* only, a single enhance from both.
EnhanceBodies(r) ==
    { Resp(200, "{enhancedImage: <the request's image>}", TRUE,
           Dict({"enhancedImage"}, << >>, r.image)),
      Resp(200, "{enhancedImage: <url>}", TRUE, Dict({"enhancedImage"}, << >>, Url)),
      Resp(200, "{enhancedImage: <bad base64>}", TRUE,
           Dict({"enhancedImage"}, << >>, BadBase64Uri)),
      Resp(200, "{}", TRUE, Dict({}, << >>, << >>)) } \cup CommonBodies

RareEnhanceBodies ==
    { Resp(200, "{enhancedImage: <no comma>}", TRUE,
           Dict({"enhancedImage"}, << >>, NoCommaUri)) } \cup ErrorBodies

EnhanceOutcomes(r) ==
    EnhanceBodies(r) \cup
        (IF cmd \in {"batch", "batch_enhance"} THEN {} ELSE RareEnhanceBodies)

JsonOutcomes ==
    { Resp(200, "{ok: true}", TRUE, Dict({"ok"}, << >>, << >>)) }
        \cup CommonBodies \cup ErrorBodies

GetOutcomes ==
    { Resp(200, "<image bytes>", FALSE, JsonNull),
      Resp(404, "Not Found", FALSE, JsonNull),
      Raised("ConnectionError"), Silent }

\* response.content of the downloaded image
DownloadedBytes == <<137, 80, 78, 71>>

-----------------------------------------------------------------------------
(* Request mediator: the three operations' handling of a response *)

AnySuccessStatus(status) == status \in 200..299

\* response.status_code == 200
StatusOk(status) == status = 200

\* What a try-body comes to: a returned value or a raised exception.
Returns(v) == [raised |-> "none", ret |-> v]

Raises(e) == [raised |-> e, ret |-> JsonNull]

\* response.json()
ParseJson(out) == IF out.valid THEN Returns(out.json) ELSE Raises("JSONDecodeError")

EnhanceFailedMsg(out) ==
    << "Enhancement failed: ", ToString(out.status), " - ", out.text >>

ClassifyFailedMsg(out) == << "Classification failed: ", ToString(out.status) >>

AdminFailedMsg(out) ==
    << "Admin command failed: ", ToString(out.status), " - ", out.text >>

FailedMsg(op, out) ==
    CASE op = "enhance_image"  -> EnhanceFailedMsg(out)
      [] op = "classify_image" -> ClassifyFailedMsg(out)
      [] OTHER                 -> AdminFailedMsg(out)

ErrorMsg(op, e) ==
    CASE op = "enhance_image"  -> << "Error enhancing image: ", ExcDesc(e) >>
      [] op = "classify_image" -> << "Error classifying image: ", ExcDesc(e) >>
      [] OTHER                 -> << "Error executing admin command: ", ExcDesc(e) >>

\* The try-body after the POST, given what the transport came to.
Interpret(op, out) ==
    IF out.kind = "exception" THEN Raises(out.exc)
    ELSE IF StatusOk(out.status) THEN ParseJson(out)
    ELSE Returns(Failure(FailedMsg(op, out)))

-----------------------------------------------------------------------------
(* Entry points *)

CliAdmin == {"status", "health", "logs", "metrics", "test-apis"}

LibAdmin == {"clear_cache", "debug_image", "export_data", "get_system_info"}

CliCommands == {"enhance", "batch", "classify"} \cup CliAdmin

LibCalls == {"batch_enhance"} \cup LibAdmin

\* The command name each admin entry point hands to _admin_command.
AdminName(c) ==
    CASE c = "clear_cache"     -> "clear-cache"
      [] c = "debug_image"     -> "debug-image"
      [] c = "export_data"     -> "export-data"
      [] c = "get_system_info" -> "system-info"
      [] OTHER                 -> c

IsBatch == cmd \in {"batch", "batch_enhance"}

PathLists == UNION { [1..n -> Paths] : n \in 0..MaxBatch }

\* The image the mediator is working on.
CurPath == IF IsBatch THEN paths[i + 1] ELSE paths[1]

\* The result main hands to save_enhanced_image.
SaveArg == IF IsBatch THEN results[j + 1].result ELSE result

IdleCodec == [stage |-> "idle", bytes |-> << >>, uri |-> << >>,
              decoded |-> [ok |-> FALSE, exc |-> "none", bytes |-> << >>]]

NoFault == [in |-> "none", exc |-> "none"]

\* A line main printed, with the two numbers of the batch tally.
Printed(text, n, total) == [text |-> text, successful |-> n, total |-> total]

NothingPrinted == Printed("", 0, 0)

Init ==
    /\ cmd \in CliCommands \cup LibCalls
    /\ paths \in PathLists
    /\ CASE cmd \in {"enhance", "classify"} -> Len(paths) = 1
         [] cmd \in {"batch", "batch_enhance"} -> TRUE
         [] OTHER -> paths = << >>
    /\ pc = "main"
    /\ i = 0
    /\ results = << >>
    /\ result = JsonNull
    /\ req = NoReq
    /\ calls = << >>
    /\ events = << >>
    /\ j = 0
    /\ successful = 0
    /\ saves = << >>
    /\ printed = NothingPrinted
    /\ fault = NoFault
    /\ codec = IdleCodec

-----------------------------------------------------------------------------
(* Mediator calls: return and raise *)

\* Where control goes when a mediator call returns to its caller.
AfterCall ==
    CASE cmd = "enhance" -> "main_enhanced"
      [] IsBatch          -> "batch_append"
      [] OTHER            -> "main_print"

\* The operation ends: it returns r.ret, or the exception r.raised is turned
\* into a Failure by the except clause, or it leaves the operation.
Finish(op, path, out, r) ==
    IF r.raised = "none" \/ Catches(r.raised) THEN
        LET v == IF r.raised = "none" THEN r.ret
                 ELSE Failure(ErrorMsg(op, r.raised)) IN
        /\ calls' = Append(calls, [op |-> op, path |-> path, out |-> out, ret |-> v])
        /\ result' = v
        /\ pc' = AfterCall
        /\ fault' = fault
    ELSE
        /\ calls' = calls
        /\ result' = result
        /\ pc' = "crashed"
        /\ fault' = [in |-> op, exc |-> r.raised]

\* main: parse_args, construct the SDK, dispatch on args.command
Main ==
    /\ pc = "main"
    /\ pc' = CASE cmd = "enhance"  -> "enhance_image"
               [] cmd = "classify" -> "classify_image"
               [] cmd = "batch"    -> IF paths = << >> THEN "done" ELSE "batch_loop"
               [] cmd = "batch_enhance" -> "batch_loop"
               [] OTHER            -> "admin_command"
    /\ printed' = IF cmd = "batch" /\ paths = << >>
                  THEN Printed("No image files found", 0, 0) ELSE printed
    /\ UNCHANGED <<cmd, paths, i, results, result, req, calls, events, j,
                   successful, saves, fault, codec>>

\* enhance_image, lines 54-71: open and read the file, encode it, POST it.
enhance_image ==
    /\ pc = "enhance_image"
    /\ events' = IF IsBatch THEN Append(events, "enhance") ELSE events
    /\ \E readable \in BOOLEAN :
          IF readable THEN
              /\ req' = Request("POST", "/api/enhance", EnhanceTimeout,
                                EncodeImage(FileBytes(CurPath)))
              /\ pc' = "enhance_wait"
              /\ UNCHANGED <<calls, result, fault>>
          ELSE
              /\ req' = req
              /\ Finish("enhance_image", CurPath, Raised("FileNotFoundError"),
                        Raises("FileNotFoundError"))
    /\ UNCHANGED <<cmd, paths, i, results, j, successful, saves, printed, codec>>

\* enhance_image, lines 67-85: the POST returns or raises.
enhance_image_response ==
    /\ pc = "enhance_wait"
    /\ \E o \in EnhanceOutcomes(req) :
          LET out == Transport(req, o) IN
          Finish("enhance_image", CurPath, out, Interpret("enhance_image", out))
    /\ req' = NoReq
    /\ UNCHANGED <<cmd, paths, i, results, events, j, successful, saves,
                   printed, codec>>

\* classify_image, lines 130-141
classify_image ==
    /\ pc = "classify_image"
    /\ \E readable \in BOOLEAN :
          IF readable THEN
              /\ req' = Request("POST", "/api/classify", ClassifyTimeout,
                                EncodeImage(FileBytes(CurPath)))
              /\ pc' = "classify_wait"
              /\ UNCHANGED <<calls, result, fault>>
          ELSE
              /\ req' = req
              /\ Finish("classify_image", CurPath, Raised("FileNotFoundError"),
                        Raises("FileNotFoundError"))
    /\ UNCHANGED <<cmd, paths, i, results, events, j, successful, saves,
                   printed, codec>>

\* classify_image, lines 137-149
classify_image_response ==
    /\ pc = "classify_wait"
    /\ \E o \in JsonOutcomes :
          LET out == Transport(req, o) IN
          Finish("classify_image", CurPath, out, Interpret("classify_image", out))
    /\ req' = NoReq
    /\ UNCHANGED <<cmd, paths, i, results, events, j, successful, saves,
                   printed, codec>>

\* _admin_command, lines 195-206
admin_command ==
    /\ pc = "admin_command"
    /\ req' = Request("POST", "/api/admin", AdminTimeout, << >>)
    /\ pc' = "admin_wait"
    /\ UNCHANGED <<cmd, paths, i, results, result, calls, events, j, successful,
                   saves, printed, fault, codec>>

\* _admin_command, lines 202-214
admin_command_response ==
    /\ pc = "admin_wait"
    /\ \E o \in JsonOutcomes :
          LET out == Transport(req, o) IN
          Finish("_admin_command", AdminName(cmd), out,
                 Interpret("_admin_command", out))
    /\ req' = NoReq
    /\ UNCHANGED <<cmd, paths, i, results, events, j, successful, saves,
                   printed, codec>>

\* main, lines 353-375: print(json.dumps(result, indent=2))
MainPrint ==
    /\ pc = "main_print"
    /\ printed' = Printed("json.dumps(result)", 0, 0)
    /\ pc' = "done"
    /\ UNCHANGED <<cmd, paths, i, results, result, req, calls, events, j,
                   successful, saves, fault, codec>>

-----------------------------------------------------------------------------
(* Batch orchestrator *)

DropFailures(rs, path, r) ==
    IF ErrorIn(r) THEN rs ELSE Append(rs, [image_path |-> path, result |-> r])

\* results.append({'image_path': image_path, 'result': result})
AppendItem(rs, path, r) == Append(rs, [image_path |-> path, result |-> r])

SleepAfterEvery(k, n) == k < n

\* if i < len(image_paths) - 1
SleepAfter(k, n) == k < n - 1

\* batch_enhance, lines 101-107 and 117-118: the loop head; the next item is
\* enhanced, or the list is exhausted and the results go back to the caller.
batch_enhance ==
    /\ pc = "batch_loop"
    /\ pc' = IF i < Len(paths) THEN "enhance_image"
             ELSE IF cmd = "batch" THEN "tally" ELSE "done"
    /\ UNCHANGED <<cmd, paths, i, results, result, req, calls, events, j,
                   successful, saves, printed, fault, codec>>

\* batch_enhance, lines 108-114
batch_enhance_append ==
    /\ pc = "batch_append"
    /\ results' = AppendItem(results, CurPath, result)
    /\ IF SleepAfter(i, Len(paths))
       THEN pc' = "batch_sleep" /\ i' = i
       ELSE pc' = "batch_loop" /\ i' = i + 1
    /\ UNCHANGED <<cmd, paths, result, req, calls, events, j, successful,
                   saves, printed, fault, codec>>

\* batch_enhance, line 115: time.sleep(1)
batch_enhance_sleep ==
    /\ pc = "batch_sleep"
    /\ events' = Append(events, "sleep")
    /\ i' = i + 1
    /\ pc' = "batch_loop"
    /\ UNCHANGED <<cmd, paths, results, result, req, calls, j, successful,
                   saves, printed, fault, codec>>

-----------------------------------------------------------------------------
(* main: what it does with the results *)

\* main, lines 316-320
MainEnhanced ==
    /\ pc = "main_enhanced"
    /\ IF result.kind /= "dict" THEN
           /\ pc' = "crashed"
           /\ fault' = [in |-> "main", exc |-> "TypeError"]
           /\ printed' = printed
       ELSE IF ErrorIn(result) THEN
           /\ pc' = "done"
           /\ fault' = fault
           /\ printed' = Printed("Error: ", 0, 0)
       ELSE
           /\ pc' = "save"
           /\ fault' = fault
           /\ printed' = printed
    /\ UNCHANGED <<cmd, paths, i, results, result, req, calls, events, j,
                   successful, saves, codec>>

CountEvery(n, ok) == n + 1

\* if sdk.save_enhanced_image(...): successful += 1
CountSaved(n, ok) == IF ok THEN n + 1 ELSE n

\* main, lines 342-351: the tally loop and its final line
Tally ==
    /\ pc = "tally"
    /\ IF j < Len(results) THEN
           LET r == results[j + 1].result IN
           IF r.kind /= "dict" THEN
               /\ pc' = "crashed"
               /\ fault' = [in |-> "main", exc |-> "TypeError"]
               /\ UNCHANGED <<j, printed>>
           ELSE IF ~ErrorIn(r) THEN
               /\ pc' = "save"
               /\ UNCHANGED <<j, printed, fault>>
           ELSE
               /\ j' = j + 1
               /\ UNCHANGED <<pc, printed, fault>>
       ELSE
           /\ printed' = Printed("Batch processing completed", successful,
                                 Len(results))
           /\ pc' = "done"
           /\ UNCHANGED <<j, fault>>
    /\ UNCHANGED <<cmd, paths, i, results, result, req, calls, events,
                   successful, saves, codec>>

-----------------------------------------------------------------------------
(* save_enhanced_image *)

AssumeEnhancedImage(r) == TRUE

\* 'enhancedImage' in result
HasEnhancedImage(r) == "enhancedImage" \in r.keys

\* save_enhanced_image returns ok to main, which goes on.
SaveReturn(ok, gets, bytes) ==
    /\ saves' = Append(saves, [arg |-> SaveArg, ok |-> ok, gets |-> gets,
                               bytes |-> bytes])
    /\ IF IsBatch THEN
           /\ successful' = CountSaved(successful, ok)
           /\ j' = j + 1
           /\ pc' = "tally"
           /\ printed' = printed
       ELSE
           /\ printed' = IF ok THEN Printed("Image enhanced successfully", 0, 0)
                         ELSE Printed("Failed to save enhanced image", 0, 0)
           /\ pc' = "done"
           /\ UNCHANGED <<successful, j>>
    /\ fault' = fault

\* An exception inside save_enhanced_image: caught (return False) or not.
SaveRaise(e, gets) ==
    IF Catches(e) THEN SaveReturn(FALSE, gets, << >>)
    ELSE /\ pc' = "crashed"
         /\ fault' = [in |-> "save_enhanced_image", exc |-> e]
         /\ UNCHANGED <<saves, successful, j, printed>>

\* with open(output_path, 'wb') as f: f.write(image_data); return True
WriteFile(bytes, gets) ==
    \E writable \in BOOLEAN :
        IF writable THEN SaveReturn(TRUE, gets, bytes)
        ELSE SaveRaise("OSError", gets)

\* save_enhanced_image, lines 227-250, up to the GET when there is one
save_enhanced_image ==
    /\ pc = "save"
    /\ IF ~HasEnhancedImage(SaveArg) THEN
           SaveReturn(FALSE, 0, << >>) /\ req' = req
       ELSE IF StartsWith(SaveArg.enhancedImage, DataScheme) THEN
           LET d == DecodeDataUri(SaveArg.enhancedImage) IN
           /\ req' = req
           /\ IF d.ok THEN WriteFile(d.bytes, 0) ELSE SaveRaise(d.exc, 0)
       ELSE
           /\ req' = Request("GET", "enhanced_url", NoTimeout, << >>)
           /\ pc' = "save_wait"
           /\ UNCHANGED <<saves, successful, j, printed, fault>>
    /\ UNCHANGED <<cmd, paths, i, results, result, calls, events, codec>>

\* save_enhanced_image, lines 240-254: the GET returns, raises, or never ends
save_enhanced_image_response ==
    /\ pc = "save_wait"
    /\ \E o \in GetOutcomes :
          LET out == Transport(req, o) IN
          IF out.kind = "silent" THEN
              /\ pc' = "blocked"
              /\ req' = req
              /\ UNCHANGED <<saves, successful, j, printed, fault>>
          ELSE
              /\ req' = NoReq
              /\ IF out.kind = "exception" THEN SaveRaise(out.exc, 1)
                 ELSE IF out.status /= 200 THEN SaveReturn(FALSE, 1, << >>)
                 ELSE WriteFile(DownloadedBytes, 1)
    /\ UNCHANGED <<cmd, paths, i, results, result, calls, events, codec>>

-----------------------------------------------------------------------------
(* The program *)

Next ==
    \/ Main
    \/ enhance_image
    \/ enhance_image_response
    \/ classify_image
    \/ classify_image_response
    \/ admin_command
    \/ admin_command_response
    \/ MainPrint
    \/ batch_enhance
    \/ batch_enhance_append
    \/ batch_enhance_sleep
    \/ MainEnhanced
    \/ Tally
    \/ save_enhanced_image
    \/ save_enhanced_image_response

Spec == Init /\ [][Next]_vars

-----------------------------------------------------------------------------
(* The codec on its own: every file of up to MaxLen bytes is encoded as     *)
(* enhance_image encodes it and decoded as save_enhanced_image decodes it.  *)

Bytes == {0, 1, 216, 255}

ByteSeqs == UNION { [1..n -> Bytes] : n \in 0..MaxLen }

CodecInit ==
    /\ cmd = "enhance"
    /\ paths = << >>
    /\ pc = "codec"
    /\ i = 0
    /\ results = << >>
    /\ result = JsonNull
    /\ req = NoReq
    /\ calls = << >>
    /\ events = << >>
    /\ j = 0
    /\ successful = 0
    /\ saves = << >>
    /\ printed = NothingPrinted
    /\ fault = NoFault
    /\ codec \in { [IdleCodec EXCEPT !.stage = "file", !.bytes = b] : b \in ByteSeqs }

\* enhance_image, lines 56-58
CodecEncode ==
    /\ codec.stage = "file"
    /\ codec' = [codec EXCEPT !.stage = "encoded", !.uri = EncodeImage(codec.bytes)]
    /\ UNCHANGED mainVars

\* save_enhanced_image, lines 234-244: the data: branch decodes, any other
\* value is downloaded.
CodecDecode ==
    /\ codec.stage = "encoded"
    /\ codec' = IF StartsWith(codec.uri, DataScheme)
                THEN [codec EXCEPT !.stage = "decoded",
                                   !.decoded = DecodeDataUri(codec.uri)]
                ELSE [codec EXCEPT !.stage = "downloaded"]
    /\ UNCHANGED mainVars

CodecNext == CodecEncode \/ CodecDecode

SpecCodec == CodecInit /\ [][CodecNext]_vars

-----------------------------------------------------------------------------
(* Properties *)

MediatorOps == {"enhance_image", "classify_image", "_admin_command"}

\* part in message, for a message built from parts
Contains(msg, part) == \E k \in 1..Len(msg) : msg[k] = part

Non200(c) == c.out.kind = "response" /\ c.out.status /= 200

ParsedOk(c) == c.out.kind = "response" /\ c.out.status = 200 /\ c.out.valid

\* The exception a call ran into, "none" when it ran into none.
FaultOf(c) ==
    IF c.out.kind = "exception" THEN c.out.exc
    ELSE IF c.out.kind = "response" /\ c.out.status = 200 /\ ~c.out.valid
    THEN "JSONDecodeError" ELSE "none"

FailureCount(rets) == Cardinality({k \in 1..Len(rets) : ErrorIn(rets[k])})

CallRets == [k \in 1..Len(calls) |-> calls[k].ret]

ResultRets == [k \in 1..Len(results) |-> results[k].result]

\* batch_enhance has returned its list (or main found no image at all).
BatchReturned ==
    IsBatch /\ pc \in {"tally", "save", "save_wait", "blocked", "done", "crashed"}

TallyPrinted ==
    cmd = "batch" /\ pc = "done" /\ printed.text = "Batch processing completed"

Count(seq, x) == Cardinality({k \in 1..Len(seq) : seq[k] = x})

\* C1: for each mediator operation, a response whose status is not 200 is
\* returned as a Failure whose message contains the status code, never as
\* the parsed body.
C1_Non200IsFailure ==
    \A k \in 1..Len(calls) :
        Non200(calls[k]) =>
            /\ calls[k].ret.kind = "dict"
            /\ ErrorIn(calls[k].ret)
            /\ Contains(calls[k].ret.error, ToString(calls[k].out.status))
            /\ calls[k].ret /= calls[k].out.json

C1_Witness ==
    /\ pc = "done"
    /\ \E k \in 1..Len(calls) :
          calls[k].op = "_admin_command" /\ calls[k].out.kind = "response"
          /\ calls[k].out.status = 201

\* C2: no mediator operation lets an exception out: an unreadable file, a
\* transport failure or timeout, or a 200 body that is no JSON comes back as
\* a Failure whose message carries the exception's description.
C2_NeverRaises ==
    /\ fault.in \notin MediatorOps
    /\ \A k \in 1..Len(calls) :
          FaultOf(calls[k]) /= "none" =>
              /\ ErrorIn(calls[k].ret)
              /\ Contains(calls[k].ret.error, ExcDesc(FaultOf(calls[k])))

C2_Witness ==
    /\ IsBatch /\ Len(calls) = 3
    /\ FaultOf(calls[1]) = "ReadTimeout"
    /\ FaultOf(calls[2]) = "FileNotFoundError"
    /\ FaultOf(calls[3]) = "JSONDecodeError"

\* C3: batch_enhance returns one entry per input path, in input order, each
\* holding the path and what enhancing it returned; as many entries are
\* Failures as enhance calls returned one, and every path is attempted
\* whatever the earlier ones came to.
C3_BatchResults ==
    IsBatch =>
        /\ Len(results) <= Len(calls)
        /\ \A k \in 1..Len(results) :
              /\ results[k].image_path = paths[k]
              /\ calls[k].path = paths[k]
              /\ results[k].result = calls[k].ret
        /\ BatchReturned =>
              /\ Len(results) = Len(paths)
              /\ Len(calls) = Len(paths)
              /\ FailureCount(ResultRets) = FailureCount(CallRets)

C3_Witness ==
    /\ cmd = "batch_enhance" /\ pc = "done"
    /\ paths = << "b.png", "a.jpg", "b.png" >>
    /\ ErrorIn(results[1].result)
    /\ ~ErrorIn(results[2].result)
    /\ ErrorIn(results[3].result)

\* C4 as claimed: the tally main prints after a batch of N paths of which K
\* enhance calls returned a Failure is (N-K)/N.
C4_TallyIsNMinusK ==
    TallyPrinted =>
        /\ printed.total = Len(paths)
        /\ printed.successful = Len(paths) - FailureCount(CallRets)

\* C4 as amended: the tally is S/N, S the number of save_enhanced_image calls
\* that returned True; one such call is made per result without 'error', so
\* S is at most N-K.
C4_TallyCountsSaved ==
    TallyPrinted =>
        /\ printed.total = Len(paths)
        /\ Len(saves) = Len(paths) - FailureCount(CallRets)
        /\ printed.successful = Cardinality({k \in 1..Len(saves) : saves[k].ok})
        /\ printed.successful <= Len(paths) - FailureCount(CallRets)

C4_Witness ==
    /\ TallyPrinted
    /\ Len(paths) = 3
    /\ FailureCount(CallRets) = 1
    /\ printed.successful = 1

\* C5: save_enhanced_image of a result without 'enhancedImage' returns False
\* and issues no GET.
C5_MissingFieldNoGet ==
    /\ \A k \in 1..Len(saves) :
          "enhancedImage" \notin saves[k].arg.keys =>
              ~saves[k].ok /\ saves[k].gets = 0
    /\ pc \in {"save_wait", "blocked"} =>
          "enhancedImage" \in SaveArg.keys /\ req.method = "GET"

C5_Witness ==
    /\ pc = "done"
    /\ \E k \in 1..Len(saves) :
          "enhancedImage" \notin saves[k].arg.keys /\ ~saves[k].ok

\* C6: the data URI the encoder builds from a file's bytes takes the
\* decoder's data: branch and decodes to the same bytes; the bytes FF D8 FF
\* encode to data:image/jpeg;base64,/9j/.
C6_RoundTrip ==
    /\ codec.stage /= "downloaded"
    /\ codec.stage = "decoded" =>
          codec.decoded.ok /\ codec.decoded.bytes = codec.bytes
    /\ codec.stage \in {"encoded", "decoded"} /\ codec.bytes = <<255, 216, 255>> =>
          codec.uri = JpegPrefix \o << "/", "9", "j", "/" >>

C6_Witness ==
    /\ codec.stage = "decoded"
    /\ codec.bytes = <<255, 216, 255>>
    /\ codec.decoded.bytes = <<255, 216, 255>>

\* C7: batch_enhance sleeps between two enhance calls and nowhere else:
\* enhance calls and sleeps alternate, starting and ending with an enhance
\* call, so N items make max(N-1, 0) sleeps.
C7_PausesBetweenItems ==
    IsBatch =>
        /\ \A k \in 1..(Len(events) - 1) : events[k] /= events[k + 1]
        /\ events /= << >> => events[1] = "enhance"
        /\ BatchReturned =>
              /\ Count(events, "enhance") = Len(paths)
              /\ Count(events, "sleep") =
                    IF Len(paths) = 0 THEN 0 ELSE Len(paths) - 1
              /\ events /= << >> => events[Len(events)] = "enhance"

C7_Witness ==
    /\ BatchReturned
    /\ events = << "enhance", "sleep", "enhance", "sleep", "enhance" >>
    /\ ErrorIn(calls[1].ret)

\* C8: what a mediator operation returns for a parsed 200 body is a mapping
\* that 'error' in result does not take for a Failure, and what it returns
\* otherwise is taken for one.
C8_SuccessOrFailure ==
    \A k \in 1..Len(calls) :
        IF ParsedOk(calls[k])
        THEN calls[k].ret.kind = "dict" /\ ~ErrorIn(calls[k].ret)
        ELSE calls[k].ret.kind = "dict" /\ ErrorIn(calls[k].ret)

\* C9: for each mediator operation the Failure message of a non-200
\* response embeds the status code and the body text, and that of a
\* transport or parse error embeds the exception's description.
C9_MessageEmbeds ==
    \A k \in 1..Len(calls) :
        /\ Non200(calls[k]) =>
              /\ Contains(calls[k].ret.error, ToString(calls[k].out.status))
              /\ Contains(calls[k].ret.error, calls[k].out.text)
        /\ FaultOf(calls[k]) /= "none" =>
              Contains(calls[k].ret.error, ExcDesc(FaultOf(calls[k])))

\* C10: every request is issued with a finite timeout, so no operation
\* waits for ever on a server that never answers.
C10_EveryRequestTimesOut ==
    /\ req.method /= "none" => req.timeout /= NoTimeout
    /\ pc /= "blocked"

====
